---- MODULE Spec2Model ----
(***************************************************************************)
(* RSA envelope protection of a symmetric secret                           *)
(* (fortifier/fortifier_rsa.go).                                           *)
(*                                                                         *)
(* A session (Fortifier) holds the key file bytes, the raw secret and the  *)
(* RSA envelope record {timestamp, digest, ciphertext}.  setupRsaKey seals *)
(* a fresh secret under a public key when the session has no record and    *)
(* unseals the record with a private key otherwise.                        *)
(*                                                                         *)
(* The library primitives the code calls are modelled at reduced scale:    *)
(* RSA over one-byte moduli, OAEP with a two-bit seed and a two-bit label  *)
(* hash, base64 over the real 6-bit alphabet, key files as sequences of    *)
(* lines and PEM blocks.                                                   *)
(***************************************************************************)
EXTENDS Integers, Sequences, FiniteSets, TLC

(* ------------------------------ bounds -------------------------------- *)

\* number of distinct values the random secret can take (raw, 32 bytes in the code)
NumSecrets == 2

\* number of distinct OAEP seeds the random source can deliver
NumSeeds == 2

\* number of distinct passphrases the prompt can return
NumPass == 2

\* the clock stops the model after this many seals
MaxClock == 2

Secrets == 0 .. (NumSecrets - 1)
Seeds == 0 .. (NumSeeds - 1)
Passphrases == 1 .. NumPass

(* --------------------------- small arithmetic -------------------------- *)

RECURSIVE Xor(_, _)
Xor(a, b) ==
  IF a = 0 THEN b
  ELSE IF b = 0 THEN a
  ELSE (((a % 2) + (b % 2)) % 2) + 2 * Xor(a \div 2, b \div 2)

RECURSIVE PowMod(_, _, _)
PowMod(b, x, n) ==
  IF x = 0 THEN 1 % n ELSE (b * PowMod(b, x - 1, n)) % n

(* ------------------------------ base64 --------------------------------- *)
\* A character of encoded text is its 6-bit value 0..63, PadChar for '=',
\* or BadChar for a character outside the alphabet.

PadChar == 64
BadChar == 65
Chars == 0 .. 65

RECURSIVE EncodeToString(_)
EncodeToString(b) ==
  IF Len(b) = 0 THEN <<>>
  ELSE IF Len(b) = 1 THEN
    <<b[1] \div 4, (b[1] % 4) * 16, PadChar, PadChar>>
  ELSE IF Len(b) = 2 THEN
    <<b[1] \div 4, (b[1] % 4) * 16 + b[2] \div 16, (b[2] % 16) * 4, PadChar>>
  ELSE
    <<b[1] \div 4, (b[1] % 4) * 16 + b[2] \div 16,
      (b[2] % 16) * 4 + b[3] \div 64, b[3] % 64>>
      \o EncodeToString(SubSeq(b, 4, Len(b)))

\* number of leading alphabet characters among the first four of s
ValidPrefix(s) ==
  IF Len(s) >= 1 /\ s[1] < 64 THEN
    IF Len(s) >= 2 /\ s[2] < 64 THEN
      IF Len(s) >= 3 /\ s[3] < 64 THEN
        IF Len(s) >= 4 /\ s[4] < 64 THEN 4 ELSE 3
      ELSE 2
    ELSE 1
  ELSE 0

\* the first n bytes of the 24-bit value of the (at most four) sextets d
QuantumBytes(d, n) ==
  LET sx(i) == IF i <= Len(d) THEN d[i] ELSE 0
      val == sx(1) * 262144 + sx(2) * 4096 + sx(3) * 64 + sx(4)
      all == <<val \div 65536, (val \div 256) % 256, val % 256>>
  IN SubSeq(all, 1, n)

\* one quantum: si characters consumed, the bytes produced, and the error flag
decodeQuantum(s) ==
  LET j == ValidPrefix(s)
      corrupt == [si |-> j, bytes |-> <<>>, err |-> TRUE]
  IN IF j = 4 THEN
       [si |-> 4, bytes |-> QuantumBytes(SubSeq(s, 1, 4), 3), err |-> FALSE]
     ELSE IF Len(s) = j THEN corrupt
     ELSE IF s[j + 1] # PadChar THEN corrupt
     ELSE IF j < 2 THEN corrupt
     ELSE IF j = 2 /\ (Len(s) = 3 \/ s[4] # PadChar) THEN corrupt
     ELSE [si |-> 4, bytes |-> QuantumBytes(SubSeq(s, 1, j), j - 1),
           err |-> Len(s) > 4]

\* base64.URLEncoding.DecodeString: the bytes decoded before the failure
\* point are returned together with the error
RECURSIVE DecodeString(_)
DecodeString(s) ==
  IF Len(s) = 0 THEN [bytes |-> <<>>, err |-> FALSE]
  ELSE LET q == decodeQuantum(s)
       IN IF q.err THEN [bytes |-> q.bytes, err |-> TRUE]
          ELSE LET r == DecodeString(SubSeq(s, q.si + 1, Len(s)))
               IN [bytes |-> q.bytes \o r.bytes, err |-> r.err]

(* ------------------------------- keys ---------------------------------- *)
\* A key pair: algorithm, modulus n, public exponent e, private exponent d.

KeyA == [alg |-> "rsa", n |-> 77, e |-> 7, d |-> 13]
KeyB == [alg |-> "rsa", n |-> 85, e |-> 3, d |-> 11]
\* an RSA key whose modulus is too short for OAEP with a 32-byte message
KeySmall == [alg |-> "rsa", n |-> 33, e |-> 3, d |-> 7]
KeyEd == [alg |-> "ed25519", n |-> 0, e |-> 0, d |-> 0]
KeyEc == [alg |-> "ecdsa", n |-> 0, e |-> 0, d |-> 0]

NoKey == [alg |-> "none", n |-> 0, e |-> 0, d |-> 0]

(* ------------------------------- OAEP ---------------------------------- *)
\* Encoded message: maskedSeed (2 bits) || maskedDB (4 bits), where
\* DB = lHash (2 bits) || message (2 bits).

EmBound == 64
LHash == 1

MgfDB(seed) == (5 * seed + 3) % 16
MgfSeed(maskedDB) == (3 * maskedDB + 1) % 4

\* rsa.EncryptOAEP(sha256.New(), rand.Reader, pub, msg, nil)
EncryptOAEP(pub, msg, seed) ==
  IF pub.n < EmBound THEN [bytes |-> <<>>, err |-> "message too long"]
  ELSE LET db == LHash * 4 + msg
           maskedDB == Xor(db, MgfDB(seed))
           maskedSeed == Xor(seed, MgfSeed(maskedDB))
           em == maskedSeed * 16 + maskedDB
       IN [bytes |-> <<PowMod(em, pub.e, pub.n)>>, err |-> ""]

\* big-endian value of a byte sequence
RECURSIVE BytesToInt(_)
BytesToInt(b) ==
  IF Len(b) = 0 THEN 0
  ELSE BytesToInt(SubSeq(b, 1, Len(b) - 1)) * 256 + b[Len(b)]

\* rsa.DecryptOAEP(sha256.New(), rand.Reader, pri, ciphertext, nil):
\* the message as a one-element sequence, or nil and the decryption error
DecryptOAEP(pri, ciphertext) ==
  LET failed == [raw |-> <<>>, err |-> "decryption error"]
      c == BytesToInt(ciphertext)
      em == PowMod(c, pri.d, pri.n)
      maskedSeed == em \div 16
      maskedDB == em % 16
      seed == Xor(maskedSeed, MgfSeed(maskedDB))
      db == Xor(maskedDB, MgfDB(seed))
  IN IF Len(ciphertext) > 1 \/ pri.n < EmBound THEN failed
     ELSE IF c >= pri.n THEN failed
     ELSE IF em >= EmBound THEN failed
     ELSE IF db \div 4 # LHash THEN failed
     ELSE [raw |-> <<db % 4>>, err |-> ""]

\* utils.ComputeDigest: a deterministic, collision-free digest string
ComputeDigest(raw) ==
  IF Len(raw) = 0 THEN 100 ELSE 101 + ((7 * raw[1] + 3) % 11)

(* ------------------------------ key files ------------------------------ *)
\* The key bytes are a sequence of lines.  A line is an authorized_keys
\* line, one of the two SSH2 sentinel lines, a "Comment:" header, a line of
\* base64 data holding one half of a public key blob, a whole PEM block, or
\* other text.  A PEM block has its type, whether it carries a
\* "Proc-Type: 4,ENCRYPTED" header, and its DER content: the format fmt of
\* the structure, the key k in it and the passphrase pass protecting it
\* (0: none).

Line(t, type, proc, fmt, k, pass) ==
  [t |-> t, type |-> type, proc |-> proc, fmt |-> fmt, k |-> k, pass |-> pass]

AuthLine(k) == Line("auth", "", FALSE, "", k, 0)
Ssh2Begin == Line("ssh2begin", "", FALSE, "", NoKey, 0)
Ssh2End == Line("ssh2end", "", FALSE, "", NoKey, 0)
CommentLine == Line("comment", "", FALSE, "", NoKey, 0)
B64Line(k, half) == Line("b64", "", FALSE, "", k, half)
TextLine == Line("text", "", FALSE, "", NoKey, 0)
Pem(type, fmt, k) == Line("pem", type, FALSE, fmt, k, 0)
PemEnc(type, proc, fmt, k, pass) == Line("pem", type, proc, fmt, k, pass)

Ssh2Block(k) == <<Ssh2Begin, CommentLine, B64Line(k, 1), B64Line(k, 2), Ssh2End>>

PublicKeyFiles ==
  { <<AuthLine(KeyA)>>,
    <<AuthLine(KeyEd)>>,
    Ssh2Block(KeyA),
    Ssh2Block(KeyEd),
    <<AuthLine(KeyEd)>> \o Ssh2Block(KeyA),
    <<AuthLine(KeyEd), Pem("PUBLIC KEY", "pkix", KeyA)>>,
    <<Ssh2Begin, B64Line(KeyA, 1), TextLine, Ssh2End>>,
    <<Pem("RSA PUBLIC KEY", "pkcs1pub", KeyA)>>,
    <<Pem("RSA PUBLIC KEY", "pkcs1pub", KeySmall)>>,
    <<Pem("RSA PUBLIC KEY", "junk", NoKey)>>,
    <<Pem("PUBLIC KEY", "pkix", KeyB)>>,
    <<Pem("PUBLIC KEY", "pkix", KeyEc)>>,
    <<Pem("PUBLIC KEY", "junk", NoKey)>>,
    <<Pem("CERTIFICATE", "junk", NoKey)>>,
    <<Pem("", "junk", NoKey), Pem("PUBLIC KEY", "pkix", KeyA)>>,
    <<TextLine>> }

PrivateKeyFiles ==
  { <<Pem("RSA PRIVATE KEY", "pkcs1priv", KeyA)>>,
    <<Pem("PRIVATE KEY", "pkcs8", KeyA)>>,
    <<Pem("PRIVATE KEY", "pkcs8", KeyB)>>,
    <<Pem("PRIVATE KEY", "pkcs8", KeyEd)>>,
    <<Pem("PRIVATE KEY", "junk", NoKey)>>,
    <<Pem("OPENSSH PRIVATE KEY", "openssh", KeyA)>>,
    <<PemEnc("OPENSSH PRIVATE KEY", FALSE, "openssh", KeyA, 1)>>,
    <<PemEnc("RSA PRIVATE KEY", TRUE, "pkcs1priv", KeyA, 1)>>,
    <<PemEnc("ENCRYPTED PRIVATE KEY", FALSE, "pkcs8", KeyA, 1)>>,
    <<PemEnc("ENCRYPTED PRIVATE KEY", FALSE, "pkcs8", KeyEc, 1)>>,
    <<PemEnc("ENCRYPTED PRIVATE KEY", FALSE, "junk", NoKey, 1)>>,
    <<PemEnc("ENCRYPTED PRIVATE KEY", TRUE, "pkcs8", KeyA, 1)>>,
    <<TextLine, Pem("PRIVATE KEY", "pkcs8", KeyA)>> }

KeyFiles == PublicKeyFiles \cup PrivateKeyFiles

(* ------------------------- library key parsers -------------------------- *)

NoErr == [msg |-> "", arg |-> ""]
Err(msg) == [msg |-> msg, arg |-> ""]
ErrArg(msg, arg) == [msg |-> msg, arg |-> arg]

\* ssh.ParsePublicKey on a decoded blob: the two halves of one key, in order
ParsePublicKey(blob) ==
  IF Len(blob) = 2 /\ blob[1].k = blob[2].k /\ blob[1].k.alg # "none"
     /\ blob[1].pass = 1 /\ blob[2].pass = 2
  THEN [key |-> blob[1].k, err |-> NoErr]
  ELSE [key |-> NoKey, err |-> Err("ssh: short read")]

\* ssh.ParseAuthorizedKey: the key of the first line that parses as an
\* authorized_keys entry; lines that do not parse are skipped
RECURSIVE ParseAuthorizedKey(_)
ParseAuthorizedKey(bytes) ==
  IF Len(bytes) = 0 THEN [key |-> NoKey, err |-> Err("ssh: no key found")]
  ELSE IF bytes[1].t = "auth" THEN [key |-> bytes[1].k, err |-> NoErr]
  ELSE ParseAuthorizedKey(Tail(bytes))

\* the loop of ParseSSH2PublicKey from line i on: the data lines collected
\* so far, and whether a collected line is not base64 text
RECURSIVE Ssh2Scan(_, _, _, _, _)
Ssh2Scan(lines, i, inKey, data, bad) ==
  IF i > Len(lines) THEN [data |-> data, bad |-> bad]
  ELSE IF lines[i].t = "ssh2begin" THEN Ssh2Scan(lines, i + 1, TRUE, data, bad)
  ELSE IF lines[i].t = "ssh2end" THEN [data |-> data, bad |-> bad]
  ELSE IF inKey /\ lines[i].t # "comment" THEN
    Ssh2Scan(lines, i + 1, inKey, Append(data, lines[i]),
             bad \/ lines[i].t # "b64")
  ELSE Ssh2Scan(lines, i + 1, inKey, data, bad)

ParseSSH2PublicKey(keyData) ==
  LET scan == Ssh2Scan(keyData, 1, FALSE, <<>>, FALSE)
  IN IF scan.bad THEN [key |-> NoKey, err |-> Err("base64 decoding error")]
     ELSE ParsePublicKey(scan.data)

\* pem.Decode: the first PEM block of the data and the data after it
RECURSIVE PemDecode(_)
PemDecode(kb) ==
  IF Len(kb) = 0 THEN [found |-> FALSE, blk |-> TextLine, rest |-> <<>>]
  ELSE IF kb[1].t = "pem" THEN [found |-> TRUE, blk |-> kb[1], rest |-> Tail(kb)]
  ELSE PemDecode(Tail(kb))

RECURSIVE decodePemFile(_)
decodePemFile(kb) ==
  LET d == PemDecode(kb)
  IN IF ~d.found \/ d.blk.type = "" THEN <<>>
     ELSE <<d.blk>> \o decodePemFile(d.rest)

\* x509.ParsePKCS1PublicKey
ParsePKCS1PublicKey(blk) ==
  IF blk.fmt = "pkcs1pub" /\ blk.pass = 0 THEN [key |-> blk.k, err |-> NoErr]
  ELSE [key |-> NoKey, err |-> Err("asn1: structure error")]

\* x509.ParsePKIXPublicKey
ParsePKIXPublicKey(blk) ==
  IF blk.fmt = "pkix" /\ blk.pass = 0 THEN [key |-> blk.k, err |-> NoErr]
  ELSE [key |-> NoKey, err |-> Err("asn1: structure error")]

\* x509.ParsePKCS1PrivateKey on DER bytes in the clear
ParsePKCS1PrivateKey(fmt, k) ==
  IF fmt = "pkcs1priv" THEN [key |-> k, err |-> NoErr]
  ELSE [key |-> NoKey, err |-> Err("asn1: structure error")]

\* x509.ParsePKCS8PrivateKey on DER bytes in the clear
ParsePKCS8PrivateKey(fmt, k) ==
  IF fmt = "pkcs8" THEN [key |-> k, err |-> NoErr]
  ELSE [key |-> NoKey, err |-> Err("asn1: structure error")]

\* ssh.ParseRawPrivateKey
ParseRawPrivateKey(bytes) ==
  LET d == PemDecode(bytes)
      blk == d.blk
      fmt == IF blk.pass = 0 THEN blk.fmt ELSE "junk"
  IN IF ~d.found THEN [key |-> NoKey, err |-> Err("ssh: no key found")]
     ELSE IF blk.proc THEN [key |-> NoKey, err |-> Err("ssh: passphrase missing")]
     ELSE IF blk.type = "RSA PRIVATE KEY" THEN ParsePKCS1PrivateKey(fmt, blk.k)
     ELSE IF blk.type = "PRIVATE KEY" THEN ParsePKCS8PrivateKey(fmt, blk.k)
     ELSE IF blk.type = "OPENSSH PRIVATE KEY" THEN
       IF blk.fmt # "openssh" THEN [key |-> NoKey, err |-> Err("ssh: invalid openssh private key")]
       ELSE IF blk.pass # 0 THEN [key |-> NoKey, err |-> Err("ssh: passphrase missing")]
       ELSE [key |-> blk.k, err |-> NoErr]
     ELSE [key |-> NoKey, err |-> ErrArg("ssh: unsupported key type", blk.type)]

\* ssh.ParseRawPrivateKeyWithPassphrase
ParseRawPrivateKeyWithPassphrase(bytes, passphrase) ==
  LET d == PemDecode(bytes)
      blk == d.blk
  IN IF ~d.found THEN [key |-> NoKey, err |-> Err("ssh: no key found")]
     ELSE IF blk.type = "OPENSSH PRIVATE KEY" THEN
       IF blk.fmt # "openssh" THEN [key |-> NoKey, err |-> Err("ssh: invalid openssh private key")]
       ELSE IF blk.pass = 0 THEN [key |-> NoKey, err |-> Err("ssh: key is not password protected")]
       ELSE IF blk.pass # passphrase THEN [key |-> NoKey, err |-> Err("x509: decryption password incorrect")]
       ELSE [key |-> blk.k, err |-> NoErr]
     ELSE IF ~blk.proc \/ blk.pass = 0 THEN [key |-> NoKey, err |-> Err("ssh: not an encrypted key")]
     ELSE IF blk.pass # passphrase THEN [key |-> NoKey, err |-> Err("x509: decryption password incorrect")]
     ELSE IF blk.type = "RSA PRIVATE KEY" THEN ParsePKCS1PrivateKey(blk.fmt, blk.k)
     ELSE [key |-> NoKey, err |-> ErrArg("ssh: unsupported key type", blk.type)]

\* pkcs8.DecryptPEMBlock: the DER bytes in the clear, or an error
DecryptPEMBlock(blk, passphrase) ==
  IF blk.pass # 0 /\ blk.pass = passphrase /\ ~blk.proc
  THEN [fmt |-> blk.fmt, k |-> blk.k, err |-> NoErr]
  ELSE [fmt |-> "junk", k |-> NoKey, err |-> Err("pkcs8: incorrect password")]

(* ------------------------------ the session ----------------------------- *)

VARIABLES
  f,       \* the Fortifier: key.bytes, key.raw, meta.Rsa, meta.Key, meta.Timestamp
  now,     \* the clock read by time.Now()
  ret,     \* what the last call of setupRsaKey did and returned
  sealed   \* the record and the secret of the last seal that succeeded

vars == <<f, now, ret, sealed>>

\* A pointer is the empty sequence (nil) or a one-element sequence; so is
\* the raw secret (nil or the 32 random bytes, here one value).

MetadataRsa(timestamp, digest, ciphertext) ==
  [timestamp |-> timestamp, digest |-> digest, ciphertext |-> ciphertext]

NoCall ==
  [op |-> "none", outcome |-> "none", err |-> NoErr, attempts |-> <<>>,
   prompts |-> 0, pw1 |-> 0, pw2 |-> 0, decodeFailed |-> FALSE]

(* ---------------------------- private-key path -------------------------- *)

\* The retry of the raw SSH parse with the passphrase pw1 when the parse
\* (result first) reported that a passphrase is missing.
retryParse(bytes, pw1, first) ==
  IF first.err.msg = "ssh: passphrase missing"
  THEN [r |-> ParseRawPrivateKeyWithPassphrase(bytes, pw1), asked |-> TRUE]
  ELSE [r |-> first, asked |-> FALSE]

\* The raw SSH parse of parseRsaPrivateKey and its retry: the key, the error
\* and whether enterPassphrase was called.
rawParse(bytes, pw1) ==
  LET s == retryParse(bytes, pw1, ParseRawPrivateKey(bytes))
  IN [key |-> s.r.key, err |-> s.r.err, asked |-> s.asked]

\* pemFallback with the error of the raw parse dropped when the first block
\* is of another type
pemFallbackClears(bytes, pw2, err) ==
  LET blocks == decodePemFile(bytes)
      decrypted == DecryptPEMBlock(blocks[1], pw2)
      parsed == ParsePKCS8PrivateKey(decrypted.fmt, decrypted.k)
      left(k, e, a) == [key |-> k, err |-> e, asked |-> a]
  IN IF Len(blocks) = 0 THEN left(NoKey, err, FALSE)
     ELSE IF blocks[1].type = "ENCRYPTED PRIVATE KEY" THEN
       IF decrypted.err # NoErr
       THEN left(NoKey, Err("rsa_fortifier: decrypt PKCS #8 private key failed"), TRUE)
       ELSE left(parsed.key, parsed.err, TRUE)
     ELSE left(NoKey, NoErr, FALSE)

\* The PEM scan of parseRsaPrivateKey, entered with the error err of the raw
\* parse: the key and the error it leaves, whether it returned at once, and
\* whether it asked for the passphrase (pw2).
pemFallback(bytes, pw2, err) ==
  LET blocks == decodePemFile(bytes)
      decrypted == DecryptPEMBlock(blocks[1], pw2)
      parsed == ParsePKCS8PrivateKey(decrypted.fmt, decrypted.k)
      left(k, e, a) == [key |-> k, err |-> e, asked |-> a]
  IN IF Len(blocks) = 0 THEN left(NoKey, err, FALSE)
     ELSE IF blocks[1].type = "ENCRYPTED PRIVATE KEY" THEN
       IF decrypted.err # NoErr
       THEN left(NoKey, Err("rsa_fortifier: decrypt PKCS #8 private key failed"), TRUE)
       ELSE left(parsed.key, parsed.err, TRUE)
     ELSE left(NoKey, err, FALSE)

\* the type assertion that ends parseRsaPrivateKey
requireRsa(k) ==
  IF k.alg # "rsa"
  THEN [key |-> NoKey,
        err |-> ErrArg("rsa_fortifier: requiring *rsa.PrivateKey, not", k.alg)]
  ELSE [key |-> k, err |-> NoErr]

\* the end of parseRsaPrivateKey: s1 is what the raw parse left, s2 what
\* the PEM scan left (or the raw parse, when it succeeded)
parseResult(s1, s2) ==
  LET last == IF s2.err # NoErr THEN [key |-> NoKey, err |-> s2.err]
              ELSE requireRsa(s2.key)
  IN [key |-> last.key, err |-> last.err, asked1 |-> s1.asked,
      asked2 |-> s2.asked, parsed |-> s2.key]

\* parseRsaPrivateKey from the result s1 of the raw parse on
parseAfterRaw(bytes, pw2, s1) ==
  parseResult(s1, IF s1.err # NoErr THEN pemFallback(bytes, pw2, s1.err)
                  ELSE [key |-> s1.key, err |-> NoErr, asked |-> FALSE])

\* parseRsaPrivateKey on the key bytes; pw1 and pw2 are what enterPassphrase
\* returns at its first and at its second call site.  asked1 and asked2 tell
\* which call sites ran, parsed is the key object before the type assertion.
parseRsaPrivateKey(bytes, pw1, pw2) ==
  parseAfterRaw(bytes, pw2, rawParse(bytes, pw1))

\* unseal without the comparison of the digests
unsealUnchecked(m, parse) ==
  LET decoded == DecodeString(m.ciphertext)
      dec == DecryptOAEP(parse.key, decoded.bytes)
  IN IF dec.err # ""
     THEN [raw |-> dec.raw, decodeFailed |-> decoded.err,
           err |-> ErrArg("rsa_fortifier: decrypting secret key failed.", dec.err)]
     ELSE [raw |-> dec.raw, decodeFailed |-> decoded.err, err |-> NoErr]

\* the outcome of setupRsaPrivateKey on record m with the parsed key
unseal(m, parse) ==
  LET decoded == DecodeString(m.ciphertext)
      dec == DecryptOAEP(parse.key, decoded.bytes)
      actual == ComputeDigest(dec.raw)
  IN IF dec.err # ""
     THEN [raw |-> dec.raw, decodeFailed |-> decoded.err,
           err |-> ErrArg("rsa_fortifier: decrypting secret key failed.", dec.err)]
     ELSE IF m.digest # actual
     THEN [raw |-> dec.raw, decodeFailed |-> decoded.err,
           err |-> Err("rsa_fortifier: digest mismatch")]
     ELSE [raw |-> dec.raw, decodeFailed |-> decoded.err, err |-> NoErr]

\* the call record of an unseal: the prompts made and what they returned
unsealCall(parse, pw1, pw2) ==
  [NoCall EXCEPT !.op = "unseal",
     !.prompts = (IF parse.asked1 THEN 1 ELSE 0) + (IF parse.asked2 THEN 1 ELSE 0),
     !.pw1 = IF parse.asked1 THEN pw1 ELSE 0,
     !.pw2 = IF parse.asked2 THEN pw2 ELSE 0]

\* the end of setupRsaPrivateKey once the key is parsed: u is the outcome of
\* decoding, decrypting and verifying
unsealDone(called, u) ==
  /\ f' = [f EXCEPT !.raw = u.raw]
  /\ ret' = [called EXCEPT !.outcome = IF u.err = NoErr THEN "ok" ELSE "error",
                           !.err = u.err, !.decodeFailed = u.decodeFailed]

\* setupRsaPrivateKey, given the result of parseRsaPrivateKey
unsealWith(parse, pw1, pw2) ==
  /\ IF parse.err # NoErr
     THEN /\ f' = f
          /\ ret' = [unsealCall(parse, pw1, pw2) EXCEPT
                       !.outcome = "error", !.err = parse.err]
     ELSE unsealDone(unsealCall(parse, pw1, pw2), unseal(f.rsa[1], parse))
  /\ UNCHANGED <<now, sealed>>

setupRsaPrivateKey ==
  \E pw1 \in Passphrases, pw2 \in Passphrases :
    unsealWith(parseRsaPrivateKey(f.bytes, pw1, pw2), pw1, pw2)

(* ---------------------------- public-key path --------------------------- *)

\* The key lookup of setupRsaPublicKey: the attempts made, in order, and the
\* RSA public key found, the error returned, or the failed type assertion.
locatePublicKey(bytes) ==
  LET auth == ParseAuthorizedKey(bytes)
      trySsh2 == auth.err # NoErr
      ssh2 == ParseSSH2PublicKey(bytes)
      parsed == IF trySsh2 THEN ssh2.key ELSE auth.key
      pub == IF parsed.alg = "rsa" THEN parsed ELSE NoKey
      tried == IF trySsh2 THEN <<"authorized", "ssh2">> ELSE <<"authorized">>
      blocks == decodePemFile(bytes)
      block == blocks[1]
      k == IF block.type = "RSA PUBLIC KEY" THEN ParsePKCS1PublicKey(block)
           ELSE IF block.type = "PUBLIC KEY" THEN ParsePKIXPublicKey(block)
           ELSE [key |-> NoKey, err |-> NoErr]
      out(key, outcome, err, attempts) ==
        [pub |-> key, outcome |-> outcome, err |-> err, attempts |-> attempts]
      scanned == Append(tried, "pem")
  IN IF pub # NoKey THEN out(pub, "ok", NoErr, tried)
     ELSE IF Len(blocks) = 0
     THEN out(NoKey, "error", Err("rsa_fortifier: pem file decoding failed"), scanned)
     ELSE IF block.type = "RSA PUBLIC KEY" /\ k.err # NoErr
     THEN out(NoKey, "error",
              ErrArg("rsa_fortifier: not public key in PKCS #1, ASN.1 DER form", k.err.msg),
              scanned)
     ELSE IF block.type = "PUBLIC KEY" /\ k.err # NoErr
     THEN out(NoKey, "error",
              ErrArg("rsa_fortifier: error parsing PKCS#8 public key", k.err.msg),
              scanned)
     ELSE IF k.key = NoKey
     THEN out(NoKey, "error",
              ErrArg("rsa_fortifier: unsupported key type", block.type), scanned)
     ELSE IF k.key.alg # "rsa"
     THEN out(NoKey, "panic", ErrArg("interface conversion", k.key.alg), scanned)
     ELSE out(k.key, "ok", NoErr, scanned)

\* sealedRecord with the digest taken before the secret is filled in
sealedRecordStale(t, raw, encrypted) ==
  MetadataRsa(t, ComputeDigest(<<>>), EncodeToString(encrypted))

\* the record written by a seal of raw that succeeded at time t
sealedRecord(t, raw, encrypted) ==
  MetadataRsa(t, ComputeDigest(raw), EncodeToString(encrypted))

setupRsaPublicKey ==
  /\ now < MaxClock
  /\ \E raw \in Secrets, seed \in Seeds, randOk \in BOOLEAN :
       LET loc == locatePublicKey(f.bytes)
           enc == EncryptOAEP(loc.pub, raw, seed)
           called == [NoCall EXCEPT !.op = "seal", !.attempts = loc.attempts]
           failed(e) ==
             /\ f' = f
             /\ ret' = [called EXCEPT !.outcome = "error", !.err = e]
             /\ UNCHANGED <<now, sealed>>
       IN IF loc.outcome # "ok"
          THEN /\ f' = f
               /\ ret' = [called EXCEPT !.outcome = loc.outcome, !.err = loc.err]
               /\ UNCHANGED <<now, sealed>>
          ELSE IF ~randOk THEN failed(Err("rand: read failed"))
          ELSE IF enc.err # "" THEN failed(Err(enc.err))
          ELSE LET rec == sealedRecord(now, <<raw>>, enc.bytes)
               IN /\ f' = [f EXCEPT !.raw = <<raw>>, !.key = "rsa",
                                    !.timestamp = now, !.rsa = <<rec>>]
                  /\ ret' = [called EXCEPT !.outcome = "ok"]
                  /\ now' = now + 1
                  /\ sealed' = [rec |-> <<rec>>, raw |-> <<raw>>, pub |-> loc.pub]

(* ------------------------------ the session ---------------------------- *)

Fortifier(meta, bytes) ==
  [bytes |-> bytes, raw |-> <<>>, rsa |-> meta, key |-> "", timestamp |-> 0]

\* the text with its i-th character replaced by ch
Replace(text, i, ch) == [text EXCEPT ![i] = ch]

\* what one character of encoded text may be changed into: a bit of the
\* sextet flipped, the first letter of the alphabet, '=', or a character
\* outside the alphabet
Flips(ch) ==
  ((IF ch < 64 THEN {Xor(ch, 1), Xor(ch, 32)} ELSE {}) \cup {0, PadChar, BadChar})
    \ {ch}

\* the copies of a persisted record a later session may be handed: the
\* record itself; one character of the ciphertext changed, a character
\* appended or the last one cut; the digest of another secret
Copies(rec) ==
  {rec}
  \cup {[rec EXCEPT !.ciphertext = Replace(rec.ciphertext, i, ch)] :
          <<i, ch>> \in {p \in (1 .. Len(rec.ciphertext)) \X Chars :
                           p[2] \in Flips(rec.ciphertext[p[1]])}}
  \cup {[rec EXCEPT !.ciphertext = Append(rec.ciphertext, ch)] :
          ch \in {0, PadChar, BadChar}}
  \cup {[rec EXCEPT !.ciphertext = SubSeq(rec.ciphertext, 1, Len(rec.ciphertext) - 1)]}
  \cup {[rec EXCEPT !.digest = ComputeDigest(<<s>>)] : s \in Secrets}

Metas ==
  {<<>>} \cup (IF sealed.rec = <<>> THEN {} ELSE {<<r>> : r \in Copies(sealed.rec[1])})

\* A session replaces the current one once that one has been used.
NewFortifierWithRsa ==
  \E meta \in Metas, bytes \in KeyFiles :
    /\ ret.op # "none"
    /\ f' = Fortifier(meta, bytes)
    /\ ret' = NoCall
    /\ UNCHANGED <<now, sealed>>

\* setupRsaKey sealing whether or not the session has a record
setupRsaKeyReseal ==
  /\ ret.outcome # "panic"
  /\ setupRsaPublicKey

setupRsaKey ==
  /\ ret.outcome # "panic"
  /\ \/ f.rsa = <<>> /\ setupRsaPublicKey
     \/ f.rsa # <<>> /\ setupRsaPrivateKey

Init ==
  /\ f \in {Fortifier(<<>>, bytes) : bytes \in KeyFiles}
  /\ now = 0
  /\ ret = NoCall
  /\ sealed = [rec |-> <<>>, raw |-> <<>>, pub |-> NoKey]

Next == NewFortifierWithRsa \/ setupRsaKey

Spec == Init /\ [][Next]_vars

(* ------------------------- facts about the last call -------------------- *)

Range(seq) == {seq[i] : i \in 1 .. Len(seq)}

\* the first PEM block of the session's key bytes
FirstBlock == PemDecode(f.bytes).blk
HasBlock == PemDecode(f.bytes).found

\* the private-key parse of the last unseal, with the passphrases it was given
LastParse == parseRsaPrivateKey(f.bytes, ret.pw1, ret.pw2)

\* the error the raw SSH parse (with its retry) left in the last unseal
Step1Err == rawParse(f.bytes, ret.pw1).err

\* a parse that succeeded with a key that is not an RSA key
NonRsa(r) == r.err = NoErr /\ r.key.alg \notin {"rsa", "none"}
IsRsa(r) == r.err = NoErr /\ r.key.alg = "rsa"

\* the first block is a private key of key pair k in one of the supported
\* encodings: PKCS#1, PKCS#8, OpenSSH (each in the clear or protected by a
\* passphrase in the way of its format)
WellFormedPrivate(blk) ==
  \/ blk.type = "RSA PRIVATE KEY" /\ blk.fmt = "pkcs1priv" /\ (blk.proc <=> blk.pass # 0)
  \/ blk.type = "PRIVATE KEY" /\ blk.fmt = "pkcs8" /\ ~blk.proc /\ blk.pass = 0
  \/ blk.type = "OPENSSH PRIVATE KEY" /\ blk.fmt = "openssh" /\ ~blk.proc
  \/ blk.type = "ENCRYPTED PRIVATE KEY" /\ blk.fmt = "pkcs8" /\ ~blk.proc /\ blk.pass # 0

\* every passphrase the last call asked for was the one protecting the key
PassphraseRight ==
  /\ ret.pw1 # 0 => ret.pw1 = FirstBlock.pass
  /\ ret.pw2 # 0 => ret.pw2 = FirstBlock.pass

(* -------------------------------- claims -------------------------------- *)

\* C1: round trip.  When a session holding the record R of the last seal,
\* unaltered, and the private key matching the sealing public key (in any
\* supported encoding, the right passphrase entered where one is asked for)
\* is unsealed, the call returns no error, the raw secret is exactly the
\* secret generated by the seal, and R.digest is ComputeDigest of it.
RoundTrip ==
  (/\ ret.op = "unseal"
   /\ f.rsa = sealed.rec
   /\ HasBlock /\ WellFormedPrivate(FirstBlock)
   /\ FirstBlock.k.alg = "rsa" /\ FirstBlock.k.n = sealed.pub.n
   /\ PassphraseRight)
  => /\ ret.outcome = "ok"
     /\ f.raw = sealed.raw
     /\ f.rsa[1].digest = ComputeDigest(sealed.raw)

\* C1 witness: a record sealed under one encoding of the public key was
\* unsealed with the passphrase-protected PKCS#8 private key of the pair
RoundTripWitness ==
  /\ ret.op = "unseal" /\ ret.outcome = "ok"
  /\ f.rsa = sealed.rec /\ f.raw = sealed.raw
  /\ FirstBlock.type = "ENCRYPTED PRIVATE KEY" /\ ret.prompts = 1

DecodeFailureIsFatal ==
  (ret.op = "unseal" /\ ret.decodeFailed) => ret.outcome = "error"

\* C4 (as claimed): when the PEM scan is reached, the first block has type
\* "PUBLIC KEY" and its PKIX DER parses to a key that is not RSA, the seal
\* returns an error to its caller.
PkixNonRsaReturnsError ==
  (/\ ret.op = "seal" /\ "pem" \in Range(ret.attempts)
   /\ Len(decodePemFile(f.bytes)) > 0
   /\ decodePemFile(f.bytes)[1].type = "PUBLIC KEY"
   /\ NonRsa(ParsePKIXPublicKey(decodePemFile(f.bytes)[1])))
  => ret.outcome = "error"

\* C5 (as claimed): whenever a supplied key parses but is not an RSA key
\* (authorized-key, SSH2 or PKIX parse in the public-key path, raw SSH or
\* PKCS#8 parse in the private-key path), the call fails with the
\* type-mismatch error naming the type of the key.
NonRsaKeyIsTypeMismatch ==
  LET mismatch(alg) ==
        /\ ret.outcome = "error"
        /\ ret.err = ErrArg("rsa_fortifier: requiring *rsa.PrivateKey, not", alg)
      blocks == decodePemFile(f.bytes)
  IN /\ (ret.op = "seal" /\ NonRsa(ParseAuthorizedKey(f.bytes)))
          => mismatch(ParseAuthorizedKey(f.bytes).key.alg)
     /\ (ret.op = "seal" /\ "ssh2" \in Range(ret.attempts)
           /\ NonRsa(ParseSSH2PublicKey(f.bytes)))
          => mismatch(ParseSSH2PublicKey(f.bytes).key.alg)
     /\ (ret.op = "seal" /\ "pem" \in Range(ret.attempts) /\ Len(blocks) > 0
           /\ blocks[1].type = "PUBLIC KEY" /\ NonRsa(ParsePKIXPublicKey(blocks[1])))
          => mismatch(blocks[1].k.alg)
     /\ (ret.op = "unseal" /\ LastParse.parsed.alg \notin {"rsa", "none"})
          => mismatch(LastParse.parsed.alg)

\* C6 (as claimed): the attempts of the public-key path run in the order
\* authorized-key, SSH2, PEM scan; the SSH2 attempt runs exactly when the
\* authorized-key attempt gave no RSA key, and the PEM scan exactly when
\* neither earlier attempt gave one.
AttemptsFallThrough ==
  ret.op = "seal" =>
    LET authRsa == IsRsa(ParseAuthorizedKey(f.bytes))
        ssh2Rsa == IsRsa(ParseSSH2PublicKey(f.bytes))
    IN /\ ret.attempts[1] = "authorized"
       /\ ("ssh2" \in Range(ret.attempts)) <=> ~authRsa
       /\ ("pem" \in Range(ret.attempts)) <=> (~authRsa /\ ~ssh2Rsa)
       /\ ret.attempts \in {<<"authorized">>, <<"authorized", "ssh2">>,
                            <<"authorized", "ssh2", "pem">>}

\* C7 (as claimed): one call of parseRsaPrivateKey asks for the passphrase
\* not at all when the bytes parse as an unencrypted private key, exactly
\* once when the key is an "ENCRYPTED PRIVATE KEY" block, and never more
\* than once.
PromptAtMostOnce ==
  ret.op = "unseal" =>
    /\ ret.prompts <= 1
    /\ ParseRawPrivateKey(f.bytes).err = NoErr => ret.prompts = 0
    /\ (HasBlock /\ FirstBlock.type = "ENCRYPTED PRIVATE KEY") => ret.prompts = 1

\* C8: when the raw SSH parse (with its passphrase retry) has failed and the
\* PEM scan finds no block, or a first block whose type is not
\* "ENCRYPTED PRIVATE KEY", the call fails with the error of the raw parse.
Step1ErrorPropagated ==
  (/\ ret.op = "unseal"
   /\ Step1Err # NoErr
   /\ \/ Len(decodePemFile(f.bytes)) = 0
      \/ decodePemFile(f.bytes)[1].type # "ENCRYPTED PRIVATE KEY")
  => /\ ret.outcome = "error"
     /\ ret.err = Step1Err
     /\ ret.prompts = (IF ret.pw1 # 0 THEN 1 ELSE 0)

\* C8 witness: the passphrase retry of the raw parse failed on a first block
\* of another type, and its error was returned
Step1ErrorPropagatedWitness ==
  /\ ret.op = "unseal" /\ ret.outcome = "error"
  /\ ret.prompts = 1 /\ ret.pw1 # 0
  /\ Len(decodePemFile(f.bytes)) > 0
  /\ decodePemFile(f.bytes)[1].type # "ENCRYPTED PRIVATE KEY"
  /\ ret.err = Err("x509: decryption password incorrect")

\* C9 (as claimed): whenever an unseal returns an error, the session's raw
\* secret is empty afterwards (of a session that did not seal the record
\* itself, so that it held no secret before the call).
FailedUnsealLeavesNoSecret ==
  (ret.op = "unseal" /\ ret.outcome = "error" /\ f.key = "") => f.raw = <<>>

\* C10: a call of setupRsaKey seals exactly when the session has no record;
\* a call on a session that has a record leaves the record as it is and
\* generates no secret; a seal that returns an error leaves the record nil
\* and the raw secret unset.
ModeAndWriteOnce ==
  [][ret'.op # "none" =>
       /\ (ret'.op = "seal") <=> (f.rsa = <<>>)
       /\ f.rsa # <<>> => (f'.rsa = f.rsa /\ sealed' = sealed /\ now' = now)
       /\ (ret'.op = "seal" /\ ret'.outcome = "error")
            => (f'.rsa = <<>> /\ f'.raw = <<>>)]_vars

\* C10 witness: the session that sealed was called again, took the unseal
\* path and still holds the record of its seal
ModeAndWriteOnceWitness ==
  /\ f.key = "rsa" /\ ret.op = "unseal"
  /\ f.rsa = sealed.rec /\ f.raw = sealed.raw

====
